---- MODULE Spec2Model ----
(***************************************************************************)
(* A model of the field sampler of parcels.h: the time locator, the        *)
(* rectilinear and curvilinear cell locators, the spatial kernels, the     *)
(* temporal interpolation driver and the vector adapters.                  *)
(*                                                                         *)
(* float and double quantities are modelled as exact rationals <<n, d>>    *)
(* (d > 0, lowest terms), so rounding is outside the model; <<1, 0>> and   *)
(* <<-1, 0>> are the infinities and <<0, 0>> is NaN.  C arrays are 0-based *)
(* and are modelled as sequences read through At(s, i).                    *)
(***************************************************************************)
EXTENDS Integers, Sequences, FiniteSets, TLC

VARIABLES call, ret, cur, hist

vars == <<call, ret, cur, hist>>

(***************************************************************************)
(* Exact rational arithmetic standing for float/double arithmetic.         *)
(***************************************************************************)
Abs(n) == IF n < 0 THEN -n ELSE n

RECURSIVE Gcd(_, _)
Gcd(a, b) == IF b = 0 THEN a ELSE Gcd(b, a % b)

RNorm(n, d) ==
  LET s == IF d < 0 THEN -1 ELSE 1
      g == Gcd(Abs(n), Abs(d))
  IN  IF d = 0 THEN <<(IF n > 0 THEN 1 ELSE IF n < 0 THEN -1 ELSE 0), 0>>
      ELSE IF g = 0 THEN <<0, 1>>
      ELSE <<(s * n) \div g, (s * d) \div g>>

R(n) == <<n, 1>>
RAdd(a, b) == RNorm(a[1] * b[2] + b[1] * a[2], a[2] * b[2])
RSub(a, b) == RNorm(a[1] * b[2] - b[1] * a[2], a[2] * b[2])
RMul(a, b) == RNorm(a[1] * b[1], a[2] * b[2])
RDiv(a, b) == RNorm(a[1] * b[2], a[2] * b[1])
NaN == <<0, 0>>
RLt(a, b) ==
  /\ a # NaN /\ b # NaN
  /\ IF a[2] = 0 /\ b[2] = 0 THEN a[1] < b[1] ELSE a[1] * b[2] < b[1] * a[2]
RLe(a, b) ==
  /\ a # NaN /\ b # NaN
  /\ IF a[2] = 0 /\ b[2] = 0 THEN a[1] <= b[1] ELSE a[1] * b[2] <= b[1] * a[2]
RGt(a, b) == RLt(b, a)
RGe(a, b) == RLe(b, a)
RFloor(a) == a[1] \div a[2]
RZero == R(0)
ROne == R(1)
RHalf == <<1, 2>>
In01(a) == RLe(RZero, a) /\ RLe(a, ROne)

At(s, i) == s[i + 1]

\* Only(S) is the element of a one-element set.  { F(v) : v \in {e} } has e
\* evaluated once, however often F uses v.
Only(S) == CHOOSE v \in S : TRUE

(***************************************************************************)
(* Enumerations (parcels.h:12-25).                                         *)
(***************************************************************************)
SUCCESS == 0
ERROR == 3
ERROR_OUT_OF_BOUNDS == 4
ERROR_TIME_EXTRAPOLATION == 5

RECTILINEAR_Z_GRID == 0
RECTILINEAR_S_GRID == 1
CURVILINEAR_Z_GRID == 2
CURVILINEAR_S_GRID == 3

LINEAR == 0
NEAREST == 1

(***************************************************************************)
(* search_time_index (parcels.h:358-379).  Returns the in/out pair         *)
(* [t, ti].                                                                *)
(***************************************************************************)
RECURSIVE TimeWalkUp(_, _, _, _)
\* Two variants of the walk up, for sensitivity: a single step instead of
\* a loop, and a strict comparison on the first step.
TimeWalkUpOnce(t, size, tvals, ti) ==
  IF ti < size - 1 /\ RGe(t, At(tvals, ti + 1)) THEN ti + 1 ELSE ti

TimeWalkUpStrict(t, size, tvals, ti) ==
  IF ti < size - 1 /\ RGt(t, At(tvals, ti + 1))
    THEN TimeWalkUp(t, size, tvals, ti + 1)
    ELSE ti

\* parcels.h:376.
TimeWalkUp(t, size, tvals, ti) ==
  IF ti < size - 1 /\ RGe(t, At(tvals, ti + 1))
    THEN TimeWalkUp(t, size, tvals, ti + 1)
    ELSE ti

RECURSIVE TimeWalkDown(_, _, _)
TimeWalkDown(t, tvals, ti) ==
  IF ti > 0 /\ RLt(t, At(tvals, ti))
    THEN TimeWalkDown(t, tvals, ti - 1)
    ELSE ti

TimePeriod(size, tvals) == RSub(At(tvals, size - 1), At(tvals, 0))

TimeReduce(t, size, tvals) ==
  LET periods == RFloor(RDiv(RSub(t, At(tvals, 0)), TimePeriod(size, tvals)))
  IN  RSub(t, RMul(R(periods), TimePeriod(size, tvals)))

\* parcels.h:376-377: the two walks, from the pair r = [t, ti].
TimeWalk(r, size, tvals) ==
  [t |-> r.t, ti |-> TimeWalkDown(r.t, tvals, TimeWalkUp(r.t, size, tvals, r.ti))]

RECURSIVE search_time_index(_, _, _, _, _)
search_time_index(t, size, tvals, ti, time_periodic) ==
  TimeWalk(IF time_periodic = 1 /\ RLt(t, At(tvals, 0))
             THEN search_time_index(TimeReduce(t, size, tvals), size, tvals,
                                    size - 1, time_periodic)
           ELSE IF time_periodic = 1 /\ RGt(t, At(tvals, size - 1))
             THEN search_time_index(TimeReduce(t, size, tvals), size, tvals,
                                    0, time_periodic)
           ELSE [t |-> t, ti |-> IF ti < 0 THEN 0 ELSE ti],
           size, tvals)

(***************************************************************************)
(* Bounded inputs.                                                         *)
(***************************************************************************)
TMax == 12
Margin == 1
FarTurns == 2
TimeAxes == { <<R(0), R(10)>>, <<R(0), R(1), R(2)>>,
              <<R(3), R(5), R(9), R(10)>>, <<R(4)>> }
Halves(lo, hi) == { RNorm(n, 2) : n \in (2 * lo)..(2 * hi) }
TimeVals == Halves(-TMax, TMax)

(***************************************************************************)
(* search_indices_vertical_z (parcels.h:50-59) and the same walk on the    *)
(* synthesized column of search_indices_vertical_s (parcels.h:96-102).     *)
(* zcol is a sequence of zdim levels.  Returns [err, zi, zeta].            *)
(***************************************************************************)
Undef == "undef"

RECURSIVE ZWalkUp(_, _, _, _)
ZWalkUp(z, zdim, zvals, zi) ==
  IF zi < zdim - 1 /\ RGt(z, At(zvals, zi + 1))
    THEN ZWalkUp(z, zdim, zvals, zi + 1)
    ELSE zi

RECURSIVE ZWalkDown(_, _, _)
ZWalkDown(z, zvals, zi) ==
  IF zi > 0 /\ RLt(z, At(zvals, zi))
    THEN ZWalkDown(z, zvals, zi - 1)
    ELSE zi

ZBackOff(zi, zdim) == IF zi = zdim - 1 THEN zi - 1 ELSE zi

\* parcels.h:57: zeta on the level pair zi, zi + 1.
ZCell(z, zvals, zi) ==
  [err |-> SUCCESS, zi |-> zi,
   zeta |-> RDiv(RSub(z, At(zvals, zi)), RSub(At(zvals, zi + 1), At(zvals, zi)))]

search_indices_vertical_z(z, zdim, zvals, zi) ==
  IF RLt(z, At(zvals, 0)) \/ RGt(z, At(zvals, zdim - 1))
    THEN [err |-> ERROR_OUT_OF_BOUNDS, zi |-> zi, zeta |-> Undef]
    ELSE ZCell(z, zvals,
               ZBackOff(ZWalkDown(z, zvals, ZWalkUp(z, zdim, zvals, zi)), zdim))

(***************************************************************************)
(* The bilinear weights shared by the kernels and by the S-grid column:    *)
(* d00 = d[yi][xi], d01 = d[yi][xi+1], d11 = d[yi+1][xi+1],                *)
(* d10 = d[yi+1][xi].                                                      *)
(***************************************************************************)
Bilin(xsi, eta, d00, d01, d11, d10) ==
  RAdd(RAdd(RMul(RMul(RSub(ROne, xsi), RSub(ROne, eta)), d00),
            RMul(RMul(xsi, RSub(ROne, eta)), d01)),
       RAdd(RMul(RMul(xsi, eta), d11),
            RMul(RMul(RSub(ROne, xsi), eta), d10)))

(***************************************************************************)
(* search_indices_vertical_s (parcels.h:61-103).  zvals is a function of   *)
(* <<ti, k, y, x>> when z4d = 1 and of <<k, y, x>> otherwise.              *)
(***************************************************************************)
SColumn(g, xi, yi, xsi, eta, ti, time, t0, t1) ==
  [k \in 1..g.zdim |->
     IF g.z4d = 1
       THEN LET ti1 == IF ti < g.tdim - 1 THEN ti + 1 ELSE ti
                zt0 == Bilin(xsi, eta,
                             g.depth[<<ti, k - 1, yi, xi>>],
                             g.depth[<<ti, k - 1, yi, xi + 1>>],
                             g.depth[<<ti, k - 1, yi + 1, xi + 1>>],
                             g.depth[<<ti, k - 1, yi + 1, xi>>])
                zt1 == Bilin(xsi, eta,
                             g.depth[<<ti1, k - 1, yi, xi>>],
                             g.depth[<<ti1, k - 1, yi, xi + 1>>],
                             g.depth[<<ti1, k - 1, yi + 1, xi + 1>>],
                             g.depth[<<ti1, k - 1, yi + 1, xi>>])
            IN  RAdd(zt0, RMul(RSub(zt1, zt0),
                               RDiv(RSub(time, t0), RSub(t1, t0))))
       ELSE Bilin(xsi, eta,
                  g.depth[<<k - 1, yi, xi>>],
                  g.depth[<<k - 1, yi, xi + 1>>],
                  g.depth[<<k - 1, yi + 1, xi + 1>>],
                  g.depth[<<k - 1, yi + 1, xi>>])]

search_indices_vertical_s(z, g, xi, yi, zi, xsi, eta, ti, time, t0, t1) ==
  search_indices_vertical_z(z, g.zdim,
                            SColumn(g, xi, yi, xsi, eta, ti, time, t0, t1), zi)

(***************************************************************************)
(* fix_1d_index (parcels.h:106-120).                                       *)
(***************************************************************************)
fix_1d_index(xi, xdim, sphere_mesh) ==
  LET x1 == IF xi < 0 THEN (IF sphere_mesh # 0 THEN xdim - 2 ELSE 0) ELSE xi
  IN  IF x1 > xdim - 2 THEN (IF sphere_mesh # 0 THEN 0 ELSE xdim - 2) ELSE x1

(***************************************************************************)
(* search_indices_rectilinear, x axis (parcels.h:153-193).                 *)
(***************************************************************************)
RECURSIVE XWalkUp(_, _, _, _)
XWalkUp(x, xdim, xvals, xi) ==
  IF xi < xdim - 1 /\ RGt(x, At(xvals, xi + 1))
    THEN XWalkUp(x, xdim, xvals, xi + 1)
    ELSE xi

RECURSIVE XWalkDown(_, _, _)
XWalkDown(x, xvals, xi) ==
  IF xi > 0 /\ RLt(x, At(xvals, xi))
    THEN XWalkDown(x, xvals, xi - 1)
    ELSE xi

\* parcels.h:165-167 and 180-182: xvals[xi] brought next to x.
LonNear(v, x) ==
  LET v1 == IF RLt(v, RSub(x, R(225))) THEN RAdd(v, R(360)) ELSE v
  IN  IF RGt(v1, RAdd(x, R(225))) THEN RSub(v1, R(360)) ELSE v1

\* parcels.h:168-170 and 183-185: xvals[xi+1] brought next to xvalsi.
LonNext(w, xvalsi) ==
  LET w1 == IF RLt(w, RSub(xvalsi, R(180))) THEN RAdd(w, R(360)) ELSE w
  IN  IF RGt(w1, RAdd(xvalsi, R(180))) THEN RSub(w1, R(360)) ELSE w1

itMax == 10000

LonCell(x, xvals, xi, it, capped) ==
  LET a == LonNear(At(xvals, xi), x)
  IN  [xi |-> xi, xvalsi |-> a, xvalsi1 |-> LonNext(At(xvals, xi + 1), a),
       it |-> it, capped |-> capped]

\* The loop test of parcels.h:174, and the exit by the cap of line 187.
LonLooping(s, x) == ~s.capped /\ (RGt(s.xvalsi, x) \/ RLt(s.xvalsi1, x))

\* A variant of the loop body below without the cap of lines 186-189.
LonStepNoCap(s, x, xdim, xvals) ==
  LET moved == IF RLt(s.xvalsi1, x) THEN s.xi + 1
               ELSE IF RGt(s.xvalsi, x) THEN s.xi - 1 ELSE s.xi
  IN  LonCell(x, xvals, fix_1d_index(moved, xdim, 1), s.it + 1, FALSE)

\* One execution of the loop body, parcels.h:175-189.
LonStep(s, x, xdim, xvals) ==
  LET moved == IF RLt(s.xvalsi1, x) THEN s.xi + 1
               ELSE IF RGt(s.xvalsi, x) THEN s.xi - 1 ELSE s.xi
  IN  LonCell(x, xvals, fix_1d_index(moved, xdim, 1), s.it + 1,
              s.it + 1 > itMax)

\* The while loop: the body is applied until the loop test fails.  LonRun(k, s)
\* applies it at most 2^k times, and the cap ends the loop after itMax + 1
\* executions, long before 2^14.
RECURSIVE LonRun(_, _, _, _, _)
LonRun(k, s, x, xdim, xvals) ==
  Only({ IF ~LonLooping(v, x) THEN v
         ELSE IF k = 0 THEN LonStep(v, x, xdim, xvals)
         ELSE LonRun(k - 1, LonRun(k - 1, v, x, xdim, xvals), x, xdim, xvals) :
         v \in {s} })

LonLoop(x, xdim, xvals, xi) ==
  LonRun(14, LonCell(x, xvals, xi, 0, FALSE), x, xdim, xvals)

\* parcels.h:160-163.
LonRejected(x, g) ==
  /\ g.zonal_periodic = 0
  /\ \/ /\ RLt(At(g.lon, 0), At(g.lon, g.xdim - 1))
        /\ (RLt(x, At(g.lon, 0)) \/ RGt(x, At(g.lon, g.xdim - 1)))
     \/ /\ RGe(At(g.lon, 0), At(g.lon, g.xdim - 1))
        /\ (RLt(x, At(g.lon, 0)) /\ RGt(x, At(g.lon, g.xdim - 1)))

\* parcels.h:157: xsi on the flat cell xi.
XCell(x, xvals, xi) ==
  [err |-> SUCCESS, xi |-> xi, it |-> 0,
   xsi |-> RDiv(RSub(x, At(xvals, xi)), RSub(At(xvals, xi + 1), At(xvals, xi)))]

\* parcels.h:187 and 192: the loop state s ended on the cap, or on a cell.
LonResult(s, x) ==
  IF s.capped
    THEN [err |-> ERROR_OUT_OF_BOUNDS, xi |-> s.xi, xsi |-> Undef, it |-> s.it]
    ELSE [err |-> SUCCESS, xi |-> s.xi, it |-> s.it,
          xsi |-> RDiv(RSub(x, s.xvalsi), RSub(s.xvalsi1, s.xvalsi))]

\* Returns [err, xi, xsi, it]; err is SUCCESS when the function goes on to y.
SearchX(x, g, xi) ==
  IF g.sphere_mesh = 0
    THEN IF RLt(x, At(g.lon, 0)) \/ RGt(x, At(g.lon, g.xdim - 1))
           THEN [err |-> ERROR_OUT_OF_BOUNDS, xi |-> xi, xsi |-> Undef, it |-> 0]
           ELSE XCell(x, g.lon, XWalkDown(x, g.lon, XWalkUp(x, g.xdim, g.lon, xi)))
    ELSE IF LonRejected(x, g)
           THEN [err |-> ERROR_OUT_OF_BOUNDS, xi |-> xi, xsi |-> Undef, it |-> 0]
           ELSE LonResult(LonLoop(x, g.xdim, g.lon, xi), x)

(***************************************************************************)
(* search_indices_rectilinear (parcels.h:148-225).  c is the cursor        *)
(* [xi, yi, zi]; returns [err, xi, yi, zi, xsi, eta, zeta, it].            *)
(***************************************************************************)
\* parcels.h:202 (and 305): the vertical search runs on grids with more than
\* one level; on a single-level grid zi is left alone and zeta is 0.
\* LayeredAbove2 is a variant that also skips two-level grids.
LayeredAbove2(zdim) == zdim > 2

Layered(zdim) == zdim > 1

\* parcels.h:220-222 (and 323-325): the final test on the local coordinates.
OutOfCell(xsi, eta, zeta) ==
  \/ RLt(xsi, RZero) \/ RGt(xsi, ROne)
  \/ RLt(eta, RZero) \/ RGt(eta, ROne)
  \/ RLt(zeta, RZero) \/ RGt(zeta, ROne)

RECURSIVE YWalkUp(_, _, _, _)
YWalkUp(y, ydim, yvals, yi) ==
  IF yi < ydim - 1 /\ RGt(y, At(yvals, yi + 1))
    THEN YWalkUp(y, ydim, yvals, yi + 1)
    ELSE yi

RECURSIVE YWalkDown(_, _, _)
YWalkDown(y, yvals, yi) ==
  IF yi > 0 /\ RLt(y, At(yvals, yi))
    THEN YWalkDown(y, yvals, yi - 1)
    ELSE yi

\* parcels.h:199: eta on the row pair yi, yi + 1.
YCell(y, yvals, yi) ==
  [err |-> SUCCESS, yi |-> yi,
   eta |-> RDiv(RSub(y, At(yvals, yi)), RSub(At(yvals, yi + 1), At(yvals, yi)))]

\* parcels.h:195-199.  Returns [err, yi, eta].
SearchY(y, g, yi) ==
  IF RLt(y, At(g.lat, 0)) \/ RGt(y, At(g.lat, g.ydim - 1))
    THEN [err |-> ERROR_OUT_OF_BOUNDS, yi |-> yi, eta |-> Undef]
    ELSE YCell(y, g.lat, YWalkDown(y, g.lat, YWalkUp(y, g.ydim, g.lat, yi)))

\* parcels.h:201-218 (and 304-321): the vertical search for the grid code;
\* zcode and scode are the Z and S codes of the calling search.  Returns
\* [err, zi, zeta].
SearchZ(z, g, xi, yi, zi, xsi, eta, ti, time, t0, t1, zcode, scode) ==
  IF Layered(g.zdim)
    THEN IF g.gtype = zcode
           THEN search_indices_vertical_z(z, g.zdim, g.depth, zi)
         ELSE IF g.gtype = scode
           THEN search_indices_vertical_s(z, g, xi, yi, zi, xsi, eta, ti, time, t0, t1)
         ELSE [err |-> ERROR, zi |-> zi, zeta |-> Undef]
    ELSE [err |-> SUCCESS, zi |-> zi, zeta |-> RZero]

\* A return with error e: the cursor as the search left it, no local
\* coordinates.
SearchFailed(e, xi, yi, zi, it) ==
  [err |-> e, xi |-> xi, yi |-> yi, zi |-> zi,
   xsi |-> Undef, eta |-> Undef, zeta |-> Undef, it |-> it]

\* parcels.h:216-224 (and 319-327): CHECKERROR on the vertical search sz,
\* the final tests and the return.
SearchDone(xi, yi, xsi, eta, it, sz) ==
  IF sz.err # SUCCESS THEN SearchFailed(sz.err, xi, yi, sz.zi, it)
  ELSE IF OutOfCell(xsi, eta, sz.zeta)
    THEN SearchFailed(ERROR_OUT_OF_BOUNDS, xi, yi, sz.zi, it)
  ELSE [err |-> SUCCESS, xi |-> xi, yi |-> yi, zi |-> sz.zi,
        xsi |-> xsi, eta |-> eta, zeta |-> sz.zeta, it |-> it]

\* parcels.h:195-224, after the y search sy.
RectAfterY(sx, sy, z, g, c, ti, time, t0, t1) ==
  IF sy.err # SUCCESS THEN SearchFailed(sy.err, sx.xi, c.yi, c.zi, sx.it)
  ELSE SearchDone(sx.xi, sy.yi, sx.xsi, sy.eta, sx.it,
                  SearchZ(z, g, sx.xi, sy.yi, c.zi, sx.xsi, sy.eta, ti, time, t0, t1,
                          RECTILINEAR_Z_GRID, RECTILINEAR_S_GRID))

\* parcels.h:195-224, after the x search sx.
RectAfterX(sx, y, z, g, c, ti, time, t0, t1) ==
  IF sx.err # SUCCESS THEN SearchFailed(sx.err, sx.xi, c.yi, c.zi, sx.it)
  ELSE RectAfterY(sx, SearchY(y, g, c.yi), z, g, c, ti, time, t0, t1)

search_indices_rectilinear(x, y, z, g, c, ti, time, t0, t1) ==
  RectAfterX(SearchX(x, g, c.xi), y, z, g, c, ti, time, t0, t1)

(***************************************************************************)
(* fix_2d_indices (parcels.h:123-145).  Returns <<xi, yi>>.                *)
(***************************************************************************)
fix_2d_indices(xi, yi, xdim, ydim, sphere_mesh) ==
  LET x1 == IF xi < 0 THEN (IF sphere_mesh # 0 THEN xdim - 2 ELSE 0) ELSE xi
      x2 == IF x1 > xdim - 2 THEN (IF sphere_mesh # 0 THEN 0 ELSE xdim - 2) ELSE x1
      y1 == IF yi < 0 THEN 0 ELSE yi
  IN  IF y1 > ydim - 2
        THEN <<IF sphere_mesh # 0 THEN xdim - x2 ELSE x2, ydim - 2>>
        ELSE <<x2, y1>>

(***************************************************************************)
(* search_indices_curvilinear (parcels.h:228-328).  g.lon and g.lat are    *)
(* the ydim x xdim tables, functions of <<row, column>>.                   *)
(***************************************************************************)
RECURSIVE ISqrtFrom(_, _)
ISqrtFrom(n, k) == IF (k + 1) * (k + 1) > n THEN k ELSE ISqrtFrom(n, k + 1)

\* sqrt of a rational: NaN below zero; exact when the value is the square of
\* a rational, which is the case on the grids of this model.
RSqrt(a) ==
  IF a = NaN \/ a[1] < 0 THEN NaN
  ELSE IF a[2] = 0 THEN a
  ELSE RNorm(ISqrtFrom(a[1] * a[2], 0), a[2])

\* fabs(a) < 1e-12 (parcels.h:271).  The rationals of the model have
\* denominators far below 10^12, so only zero is under the threshold.
Tiny(a) == a # NaN /\ a[1] = 0 /\ a[2] # 0
RNeg(a) == <<-a[1], a[2]>>

maxIterSearch == 1000000

\* parcels.h:237-240.
CurvRejected(x, g) ==
  /\ (g.zonal_periodic = 0 \/ g.sphere_mesh = 0)
  /\ \/ /\ RLt(g.lon[<<0, 0>>], g.lon[<<0, g.xdim - 1>>])
        /\ (RLt(x, g.lon[<<0, 0>>]) \/ RGt(x, g.lon[<<0, g.xdim - 1>>]))
     \/ /\ RGe(g.lon[<<0, 0>>], g.lon[<<0, g.xdim - 1>>])
        /\ (RLt(x, g.lon[<<0, 0>>]) /\ RGt(x, g.lon[<<0, g.xdim - 1>>]))

\* The corner reads of parcels.h:247 and 257 stay inside the tables.
CornersInside(xi, yi, g) ==
  xi \in 0..(g.xdim - 2) /\ yi \in 0..(g.ydim - 2)

\* parcels.h:247-256: the four corner longitudes, unwrapped on a sphere.
CurvLons(x, g, xi, yi) ==
  LET raw == <<g.lon[<<yi, xi>>], g.lon[<<yi, xi + 1>>],
               g.lon[<<yi + 1, xi + 1>>], g.lon[<<yi + 1, xi>>]>>
      p0 == LonNear(raw[1], x)
  IN  IF g.sphere_mesh # 0
        THEN <<p0, LonNext(raw[2], p0), LonNext(raw[3], p0), LonNext(raw[4], p0)>>
        ELSE raw

\* parcels.h:259-266: the coefficients <<a, b>> of the bilinear map.
CurvCoeffs(px, py) ==
  << <<px[1], RSub(px[2], px[1]), RSub(px[4], px[1]),
       RSub(RAdd(RSub(px[1], px[2]), px[3]), px[4])>>,
     <<py[1], RSub(py[2], py[1]), RSub(py[4], py[1]),
       RSub(RAdd(RSub(py[1], py[2]), py[3]), py[4])>> >>

\* parcels.h:268-270: <<aa, bb, cc>>; a and b are read as a[0..3], b[0..3].
CurvQuadratic(x, y, a, b) ==
  << RSub(RMul(At(a, 3), At(b, 2)), RMul(At(a, 2), At(b, 3))),
     RSub(RAdd(RSub(RAdd(RSub(RMul(At(a, 3), At(b, 0)), RMul(At(a, 0), At(b, 3))),
                         RMul(At(a, 1), At(b, 2))),
                    RMul(At(a, 2), At(b, 1))), RMul(x, At(b, 3))),
          RMul(y, At(a, 3))),
     RSub(RAdd(RSub(RMul(At(a, 1), At(b, 0)), RMul(At(a, 0), At(b, 1))),
               RMul(x, At(b, 1))), RMul(y, At(a, 1))) >>

\* parcels.h:271-277: eta; prev is eta of the previous iteration.
CurvEta(q, prev) ==
  LET aa == q[1]
      bb == q[2]
      cc == q[3]
  IN  IF Tiny(aa) THEN RDiv(RNeg(cc), bb)
      ELSE Only({ IF det # NaN THEN RDiv(RAdd(RNeg(bb), det), RMul(R(2), aa))
                  ELSE prev :
                  det \in { RSqrt(RSub(RMul(bb, bb), RMul(R(4), RMul(aa, cc)))) } })

\* parcels.h:278.
CurvXsi(x, a, eta) ==
  RDiv(RSub(RSub(x, At(a, 0)), RMul(At(a, 2), eta)),
       RAdd(At(a, 1), RMul(At(a, 3), eta)))

\* parcels.h:247-278: the inverse bilinear map on cell (xi, yi).  Returns
\* <<xsi, eta>>.
CurvSolve(x, y, g, xi, yi, prev) ==
  Only({ Only({ <<CurvXsi(x, ab[1], eta), eta>> :
                eta \in { CurvEta(CurvQuadratic(x, y, ab[1], ab[2]), prev) } }) :
         ab \in { CurvCoeffs(CurvLons(x, g, xi, yi),
                             <<g.lat[<<yi, xi>>], g.lat[<<yi, xi + 1>>],
                               g.lat[<<yi + 1, xi + 1>>], g.lat[<<yi + 1, xi>>]>>) } })

\* Loop state: the cursor, (xsi, eta), the counter it and how the loop stands:
\* "run", "oob" (the early returns of lines 279-282), "cap" (line 293) or
\* "ub" (the next corner reads would leave the coordinate tables).
CurvStart(c) ==
  [xi |-> c.xi, yi |-> c.yi, xsi |-> R(-1), eta |-> R(-1), it |-> 0, st |-> "run"]

CurvLooping(s) ==
  /\ s.st = "run"
  /\ (RLt(s.xsi, RZero) \/ RGt(s.xsi, ROne) \/ RLt(s.eta, RZero) \/ RGt(s.eta, ROne))

\* One execution of the loop body, parcels.h:247-296: CurvSolve, then the
\* early returns, the cursor move, fix_2d_indices and the cap.
CurvMove(s, xsi, eta, g) ==
  LET x1 == IF RLt(xsi, RZero) THEN s.xi - 1 ELSE s.xi
      x2 == IF RGt(xsi, ROne) THEN x1 + 1 ELSE x1
      y1 == IF RLt(eta, RZero) THEN s.yi - 1 ELSE s.yi
      y2 == IF RGt(eta, ROne) THEN y1 + 1 ELSE y1
      f == fix_2d_indices(x2, y2, g.xdim, g.ydim, g.sphere_mesh)
      out == (RLt(xsi, RZero) \/ RGt(xsi, ROne) \/ RLt(eta, RZero) \/ RGt(eta, ROne))
  IN  IF \/ (RLt(xsi, RZero) /\ RLt(eta, RZero) /\ s.xi = 0 /\ s.yi = 0)
         \/ (RGt(xsi, ROne) /\ RGt(eta, ROne)
               /\ s.xi = g.xdim - 1 /\ s.yi = g.ydim - 1)
        THEN [xi |-> s.xi, yi |-> s.yi, xsi |-> xsi, eta |-> eta,
              it |-> s.it, st |-> "oob"]
        ELSE [xi |-> f[1], yi |-> f[2], xsi |-> xsi, eta |-> eta, it |-> s.it + 1,
              st |-> IF s.it + 1 > maxIterSearch THEN "cap"
                     ELSE IF out /\ ~CornersInside(f[1], f[2], g) THEN "ub"
                     ELSE "run"]

CurvStep(s, x, y, g) ==
  Only({ CurvMove(s, se[1], se[2], g) :
         se \in { CurvSolve(x, y, g, s.xi, s.yi, s.eta) } })

\* The start state and the states after each of the first n executions of
\* the body, in order.
RECURSIVE CurvTrace(_, _, _, _, _)
CurvTrace(n, s, x, y, g) ==
  Only({ IF n = 0 \/ ~CurvLooping(v) THEN <<v>>
         ELSE <<v>> \o CurvTrace(n - 1, CurvStep(v, x, y, g), x, y, g) :
         v \in {s} })

Same(s, u) == s.xi = u.xi /\ s.yi = u.yi /\ s.xsi = u.xsi /\ s.eta = u.eta

\* The while loop.  The body is a function of (xi, yi, xsi, eta) alone, so a
\* loop that has not ended after xdim * ydim executions repeats a cycle
\* of states until the counter passes maxIterSearch: the state at that
\* execution is read off the cycle instead of running 10^6 executions.
CurvCapState(tr) ==
  LET n == Len(tr)
      last == tr[n]
      len == CHOOSE l \in 1..(n - 1) :
               /\ Same(tr[n - l], last)
               /\ \A m \in 1..(l - 1) : ~Same(tr[n - m], last)
      final == maxIterSearch + 1
      back == (len - ((final - last.it) % len)) % len
      at == tr[n - back]
  IN  [xi |-> at.xi, yi |-> at.yi, xsi |-> at.xsi, eta |-> at.eta,
       it |-> final, st |-> "cap"]

CurvLoop(x, y, g, c) ==
  Only({ IF ~CurvLooping(tr[Len(tr)]) THEN tr[Len(tr)] ELSE CurvCapState(tr) :
         tr \in { CurvTrace(g.xdim * g.ydim, CurvStart(c), x, y, g) } })

\* The result r of a search with the way st its loop ended.
WithSt(r, st) ==
  [err |-> r.err, xi |-> r.xi, yi |-> r.yi, zi |-> r.zi, xsi |-> r.xsi,
   eta |-> r.eta, zeta |-> r.zeta, it |-> r.it, st |-> st]

\* parcels.h:298-327, after the loop ended in state s.
CurvAfterLoop(s, z, g, c, ti, time, t0, t1) ==
  IF s.st # "run" \/ s.xsi = NaN \/ s.eta = NaN
    THEN WithSt(SearchFailed(ERROR_OUT_OF_BOUNDS, s.xi, s.yi, c.zi, s.it), s.st)
    ELSE WithSt(SearchDone(s.xi, s.yi, s.xsi, s.eta, s.it,
                           SearchZ(z, g, s.xi, s.yi, c.zi, s.xsi, s.eta,
                                   ti, time, t0, t1,
                                   CURVILINEAR_Z_GRID, CURVILINEAR_S_GRID)),
                s.st)

\* Returns [err, xi, yi, zi, xsi, eta, zeta, it, st].
search_indices_curvilinear(x, y, z, g, c, ti, time, t0, t1) ==
  IF CurvRejected(x, g)
    THEN WithSt(SearchFailed(ERROR_OUT_OF_BOUNDS, c.xi, c.yi, c.zi, 0), "run")
    ELSE CurvAfterLoop(CurvLoop(x, y, g, c), z, g, c, ti, time, t0, t1)

(***************************************************************************)
(* search_indices (parcels.h:333-355).                                     *)
(***************************************************************************)
search_indices(x, y, z, g, c, ti, time, t0, t1) ==
  IF g.gtype \in {RECTILINEAR_Z_GRID, RECTILINEAR_S_GRID}
    THEN search_indices_rectilinear(x, y, z, g, c, ti, time, t0, t1)
  ELSE IF g.gtype \in {CURVILINEAR_Z_GRID, CURVILINEAR_S_GRID}
    THEN search_indices_curvilinear(x, y, z, g, c, ti, time, t0, t1)
  ELSE [err |-> ERROR, xi |-> c.xi, yi |-> c.yi, zi |-> c.zi,
        xsi |-> Undef, eta |-> Undef, zeta |-> Undef, it |-> 0]

(***************************************************************************)
(* The spatial kernels (parcels.h:382-435).  data is the field's cube, a   *)
(* function of <<t, z, y, x>>; ti selects the time slice.                  *)
(***************************************************************************)
spatial_interpolation_bilinear(xsi, eta, xi, yi, data, ti) ==
  Bilin(xsi, eta, data[<<ti, 0, yi, xi>>], data[<<ti, 0, yi, xi + 1>>],
        data[<<ti, 0, yi + 1, xi + 1>>], data[<<ti, 0, yi + 1, xi>>])

spatial_interpolation_trilinear(xsi, eta, zeta, xi, yi, zi, data, ti) ==
  LET f0 == Bilin(xsi, eta, data[<<ti, zi, yi, xi>>], data[<<ti, zi, yi, xi + 1>>],
                  data[<<ti, zi, yi + 1, xi + 1>>], data[<<ti, zi, yi + 1, xi>>])
      f1 == Bilin(xsi, eta, data[<<ti, zi + 1, yi, xi>>],
                  data[<<ti, zi + 1, yi, xi + 1>>],
                  data[<<ti, zi + 1, yi + 1, xi + 1>>],
                  data[<<ti, zi + 1, yi + 1, xi>>])
  IN  RAdd(RMul(RSub(ROne, zeta), f0), RMul(zeta, f1))

spatial_interpolation_nearest2D(xsi, eta, xi, yi, data, ti) ==
  LET ii == IF RLt(xsi, RHalf) THEN xi ELSE xi + 1
      jj == IF RLt(eta, RHalf) THEN yi ELSE yi + 1
  IN  data[<<ti, 0, jj, ii>>]

spatial_interpolation_nearest3D(xsi, eta, zeta, xi, yi, zi, data, ti) ==
  LET ii == IF RLt(xsi, RHalf) THEN xi ELSE xi + 1
      jj == IF RLt(eta, RHalf) THEN yi ELSE yi + 1
      kk == IF RLt(zeta, RHalf) THEN zi ELSE zi + 1
  IN  data[<<ti, kk, jj, ii>>]

\* The kernel the driver picks for a method and a grid, on time slice ti
\* (parcels.h:462-481 and 490-504).
Kernel(f, s, ti, interp_method) ==
  IF interp_method = LINEAR
    THEN IF f.grid.zdim = 1
           THEN spatial_interpolation_bilinear(s.xsi, s.eta, s.xi, s.yi, f.data, ti)
           ELSE spatial_interpolation_trilinear(s.xsi, s.eta, s.zeta, s.xi, s.yi,
                                                s.zi, f.data, ti)
    ELSE IF f.grid.zdim = 1
           THEN spatial_interpolation_nearest2D(s.xsi, s.eta, s.xi, s.yi, f.data, ti)
           ELSE spatial_interpolation_nearest3D(s.xsi, s.eta, s.zeta, s.xi, s.yi,
                                                s.zi, f.data, ti)

(***************************************************************************)
(* temporal_interpolation_structured_grid (parcels.h:438-510).  cs holds   *)
(* the caller's four cursor arrays, indexed by igrid.  Returns             *)
(* [err, value, cur, branch, loc, ub]; value is Undef when *value is not   *)
(* written, loc holds the locals xsi, eta and zeta after the search, and   *)
(* ub tells that the curvilinear search went on to corner reads outside    *)
(* the coordinate tables.                                                  *)
(***************************************************************************)
\* A variant of the write below that always lands in slot 0.
SetAtFirst(s, i, v) == [s EXCEPT ![1] = v]

\* xi[igrid] = v, and likewise for the other cursor arrays.
SetAt(s, i, v) == [s EXCEPT ![i + 1] = v]

\* A variant of the test below that also rejects the last time value.
TimeOutsideLoose(time, g) ==
  RLt(time, At(g.time, 0)) \/ RGe(time, At(g.time, g.tdim - 1))

\* parcels.h:447.
TimeOutside(time, g) ==
  RLt(time, At(g.time, 0)) \/ RGt(time, At(g.time, g.tdim - 1))

TwoSample(ti, time, g) == ti < g.tdim - 1 /\ RGt(time, At(g.time, ti))

\* A variant of the blend below that ignores the time: the midpoint.
BlendHalf(f0, f1, time, t0, t1) == RAdd(f0, RMul(RSub(f1, f0), RHalf))

\* parcels.h:485.
Blend(f0, f1, time, t0, t1) ==
  RAdd(f0, RMul(RSub(f1, f0), RDiv(RSub(time, t0), RSub(t1, t0))))

\* parcels.h:461-486 and 490-508, after the cell search s: CHECKERROR, the
\* kernels on one or two time slices and the blend.
DriverValue(s, time, ti, two, t0, t1, f, cs, interp_method) ==
  LET igrid == f.igrid
      cs1 == [xi |-> SetAt(cs.xi, igrid, s.xi), yi |-> SetAt(cs.yi, igrid, s.yi),
              zi |-> SetAt(cs.zi, igrid, s.zi), ti |-> SetAt(cs.ti, igrid, ti)]
      branch == IF two THEN "two" ELSE "single"
      loc == [xsi |-> s.xsi, eta |-> s.eta, zeta |-> s.zeta]
      ub == "st" \in DOMAIN s /\ s.st = "ub"
  IN  IF s.err # SUCCESS
        THEN [err |-> s.err, value |-> Undef, cur |-> cs1, branch |-> branch,
              loc |-> loc, ub |-> ub]
      ELSE IF interp_method \notin {LINEAR, NEAREST}
        THEN [err |-> ERROR, value |-> Undef, cur |-> cs1, branch |-> branch,
              loc |-> loc, ub |-> ub]
      ELSE IF two
        THEN [err |-> SUCCESS, cur |-> cs1, branch |-> branch, loc |-> loc,
              ub |-> ub,
              value |-> Blend(Kernel(f, s, ti, interp_method),
                              Kernel(f, s, ti + 1, interp_method),
                              time, t0, t1)]
      ELSE [err |-> SUCCESS, cur |-> cs1, branch |-> branch, loc |-> loc,
            ub |-> ub, value |-> Kernel(f, s, ti, interp_method)]

\* parcels.h:457-461 and 488-490: t0, t1 and the cell search of the branch
\* taken; two tells the two-sample branch.
DriverSample(time, ti, two, x, y, z, f, cs, interp_method) ==
  LET g == f.grid
      t0 == At(g.time, ti)
      t1 == IF two THEN At(g.time, ti + 1) ELSE RAdd(At(g.time, ti), ROne)
  IN  DriverValue(search_indices(x, y, z, g,
                                 [xi |-> At(cs.xi, f.igrid), yi |-> At(cs.yi, f.igrid),
                                  zi |-> At(cs.zi, f.igrid)],
                                 ti, IF two THEN time ELSE t0, t0, t1),
                  time, ti, two, t0, t1, f, cs, interp_method)

\* parcels.h:457, after search_time_index returned st = [t, ti].
DriverAtTime(st, x, y, z, f, cs, interp_method) ==
  DriverSample(st.t, st.ti, TwoSample(st.ti, st.t, f.grid), x, y, z, f, cs,
               interp_method)

temporal_interpolation_structured_grid(x, y, z, time, f, cs, interp_method) ==
  IF /\ f.time_periodic = 0 /\ f.allow_time_extrapolation = 0
     /\ TimeOutside(time, f.grid)
    THEN [err |-> ERROR_TIME_EXTRAPOLATION, value |-> Undef, cur |-> cs,
          branch |-> "none", loc |-> Undef, ub |-> FALSE]
    ELSE DriverAtTime(search_time_index(time, f.grid.tdim, f.grid.time,
                                        At(cs.ti, f.igrid), f.time_periodic),
                      x, y, z, f, cs, interp_method)

(***************************************************************************)
(* temporal_interpolation (parcels.h:512-528).                             *)
(***************************************************************************)
temporal_interpolation(x, y, z, time, f, cs, interp_method) ==
  IF f.grid.gtype \in {RECTILINEAR_Z_GRID, RECTILINEAR_S_GRID,
                       CURVILINEAR_Z_GRID, CURVILINEAR_S_GRID}
    THEN temporal_interpolation_structured_grid(x, y, z, time, f, cs, interp_method)
    ELSE [err |-> ERROR, value |-> Undef, cur |-> cs, branch |-> "none",
          loc |-> Undef, ub |-> FALSE]

(***************************************************************************)
(* The grids of the model (CStructuredGrid, parcels.h:35-41).              *)
(***************************************************************************)
Rs(s) == [i \in 1..Len(s) |-> R(s[i])]

STable(xdim, ydim, zdim) ==
  [c \in (0..(zdim - 1)) \X (0..(ydim - 1)) \X (0..(xdim - 1)) |->
     R(c[1] * (10 + c[3] + 2 * c[2]))]

STable4(xdim, ydim, zdim, tdim) ==
  [c \in (0..(tdim - 1)) \X (0..(zdim - 1)) \X (0..(ydim - 1)) \X (0..(xdim - 1)) |->
     R(c[2] * (10 + c[4] + 2 * c[3] + 3 * c[1]))]

\* Flat rectilinear Z grid with uneven spacing.
GFlat ==
  [name |-> "flat", gtype |-> RECTILINEAR_Z_GRID, xdim |-> 4, ydim |-> 3,
   zdim |-> 3, tdim |-> 3, z4d |-> 0, sphere_mesh |-> 0, zonal_periodic |-> 0,
   lon |-> Rs(<<0, 2, 3, 6>>), lat |-> Rs(<<0, 1, 3>>),
   depth |-> Rs(<<0, 5, 10>>), time |-> Rs(<<0, 1, 2>>)]

\* Flat 2D grid of the spec's scenarios 1-3 (zdim = 1).
GPlane ==
  [name |-> "plane", gtype |-> RECTILINEAR_Z_GRID, xdim |-> 3, ydim |-> 3,
   zdim |-> 1, tdim |-> 2, z4d |-> 0, sphere_mesh |-> 0, zonal_periodic |-> 0,
   lon |-> Rs(<<0, 1, 2>>), lat |-> Rs(<<0, 1, 2>>),
   depth |-> Rs(<<0>>), time |-> Rs(<<0, 10>>)]

\* Global spherical grid, zonally periodic, the last column repeating the
\* first one 360 degrees further.
GGlobe ==
  [name |-> "globe", gtype |-> RECTILINEAR_Z_GRID, xdim |-> 5, ydim |-> 3,
   zdim |-> 2, tdim |-> 2, z4d |-> 0, sphere_mesh |-> 1, zonal_periodic |-> 1,
   lon |-> Rs(<<0, 90, 180, 270, 360>>), lat |-> Rs(<<-60, 0, 60>>),
   depth |-> Rs(<<0, 10>>), time |-> Rs(<<0, 10>>)]

\* Regional spherical grid across the date line, not zonally periodic.
GRegion ==
  [name |-> "region", gtype |-> RECTILINEAR_Z_GRID, xdim |-> 4, ydim |-> 2,
   zdim |-> 2, tdim |-> 2, z4d |-> 0, sphere_mesh |-> 1, zonal_periodic |-> 0,
   lon |-> Rs(<<135, 180, -135, -90>>), lat |-> Rs(<<0, 30>>),
   depth |-> Rs(<<0, 10>>), time |-> Rs(<<0, 10>>)]

\* Rectilinear S grids: the depth table varies per column (and per time).
GSigma ==
  [name |-> "sigma", gtype |-> RECTILINEAR_S_GRID, xdim |-> 3, ydim |-> 2,
   zdim |-> 3, tdim |-> 2, z4d |-> 0, sphere_mesh |-> 0, zonal_periodic |-> 0,
   lon |-> Rs(<<0, 2, 4>>), lat |-> Rs(<<0, 2>>),
   depth |-> STable(3, 2, 3), time |-> Rs(<<0, 2>>)]

GSigma4 ==
  [name |-> "sigma4", gtype |-> RECTILINEAR_S_GRID, xdim |-> 3, ydim |-> 2,
   zdim |-> 3, tdim |-> 2, z4d |-> 1, sphere_mesh |-> 0, zonal_periodic |-> 0,
   lon |-> Rs(<<0, 2, 4>>), lat |-> Rs(<<0, 2>>),
   depth |-> STable4(3, 2, 3, 2), time |-> Rs(<<0, 2>>)]

RectGrids == {GFlat, GPlane, GGlobe, GRegion, GSigma, GSigma4}

\* Curvilinear grids: a fan of trapezoids (lon = x * (3 - y), lat = y), and a
\* global spherical latitude-longitude mesh given as 2D tables.
Nodes(xdim, ydim) == (0..(ydim - 1)) \X (0..(xdim - 1))

FanLon == [c \in Nodes(3, 3) |-> R(c[2] * (3 - c[1]))]
FanLat == [c \in Nodes(3, 3) |-> R(c[1])]
BallLon == [c \in Nodes(5, 3) |-> R(90 * c[2])]
BallLat == [c \in Nodes(5, 3) |-> R(60 * c[1] - 60)]

GFan ==
  [name |-> "fan", gtype |-> CURVILINEAR_Z_GRID, xdim |-> 3, ydim |-> 3,
   zdim |-> 2, tdim |-> 2, z4d |-> 0, sphere_mesh |-> 0, zonal_periodic |-> 0,
   lon |-> FanLon, lat |-> FanLat,
   depth |-> Rs(<<0, 10>>), time |-> Rs(<<0, 10>>)]

GBall ==
  [name |-> "ball", gtype |-> CURVILINEAR_Z_GRID, xdim |-> 5, ydim |-> 3,
   zdim |-> 1, tdim |-> 2, z4d |-> 0, sphere_mesh |-> 1, zonal_periodic |-> 1,
   lon |-> BallLon, lat |-> BallLat,
   depth |-> Rs(<<0>>), time |-> Rs(<<0, 10>>)]

CurvGrids == {GFan, GBall}

\* A grid whose code is none of the four (temporal_interpolation's else).
GOther == [GPlane EXCEPT !.name = "other", !.gtype = 4]

(***************************************************************************)
(* Fields (CField, parcels.h:43-48): a grid, the cursor slot igrid, the    *)
(* two time flags and the data cube data[t][z][y][x].                      *)
(***************************************************************************)
\* Data that differ on every node ("mix"), and the ramp of the spec's
\* scenario 3 ("ramp": all zeros on the first time slice, all ones on the
\* second).
MixData(t, k, j, i) == 1 + i * i + 3 * j + 5 * i * j + 7 * k * k + 11 * t * t + 2 * t * i
RampData(t, k, j, i) == t

Cube(g, kind) ==
  [c \in (0..(g.tdim - 1)) \X (0..(g.zdim - 1)) \X (0..(g.ydim - 1))
          \X (0..(g.xdim - 1)) |->
     R(IF kind = "mix" THEN MixData(c[1], c[2], c[3], c[4])
       ELSE RampData(c[1], c[2], c[3], c[4]))]

Field(g, slot, extrapolate, periodic, kind) ==
  [grid |-> g, igrid |-> slot, allow_time_extrapolation |-> extrapolate,
   time_periodic |-> periodic, data |-> Cube(g, kind)]

TimeFlags == { <<0, 0>>, <<1, 0>>, <<0, 1>> }

FieldsOn(g, slot) ==
  { Field(g, slot, fl[1], fl[2], "mix") : fl \in TimeFlags }

\* The caller's cursor arrays have two slots.  Slot `slot` starts at c and
\* ti; the other slot belongs to another grid.
Cursors(slot, c, ti) ==
  [xi |-> SetAt(<<0, 0>>, slot, c.xi), yi |-> SetAt(<<0, 0>>, slot, c.yi),
   zi |-> SetAt(<<0, 0>>, slot, c.zi), ti |-> SetAt(<<0, 0>>, slot, ti)]

CursorAt(cs, slot) ==
  [xi |-> At(cs.xi, slot), yi |-> At(cs.yi, slot), zi |-> At(cs.zi, slot),
   ti |-> At(cs.ti, slot)]

NodesAndMids(axis, n) ==
  { At(axis, i) : i \in 0..(n - 1) }
    \cup { RDiv(RAdd(At(axis, i), At(axis, i + 1)), R(2)) : i \in 0..(n - 2) }
    \cup { RSub(At(axis, 0), R(Margin)), RAdd(At(axis, n - 1), R(Margin)) }

\* Query points per grid: every node, cell interiors and points outside.
\* On a spherical mesh the longitudes are multiples of 45 degrees up to one
\* turn away from the grid, and FarXs are the few taken further away.
Xs(g) ==
  IF g.sphere_mesh = 0
    THEN Halves(-Margin, At(g.lon, g.xdim - 1)[1] + Margin)
  ELSE IF g.zonal_periodic = 1
    THEN { R(45 * n) : n \in -8..16 }
  ELSE { R(45 * n) : n \in -5..6 }

FarXs(g) ==
  IF g.sphere_mesh = 0 THEN {}
  ELSE { R(45 - 360 * FarTurns), R(405 + 360 * FarTurns) }

Ys(g) ==
  IF g.sphere_mesh = 0
    THEN Halves(-Margin, At(g.lat, g.ydim - 1)[1] + Margin)
    ELSE { At(g.lat, 0), At(g.lat, g.ydim - 1),
           RDiv(RAdd(At(g.lat, 0), At(g.lat, 1)), R(2)),
           RAdd(At(g.lat, g.ydim - 1), R(Margin)) }
Zs(g) ==
  IF g.zdim = 1 THEN {RZero}
  ELSE IF g.gtype = RECTILINEAR_Z_GRID
    THEN { R(n) : n \in { -Margin, 0, 3, 5, 10, 10 + Margin } }
  ELSE { R(n) : n \in { -Margin, 0, 7, 12, 20, 30 } }

Points(g) ==
  (Xs(g) \X Ys(g) \X Zs(g))
    \cup { <<x, At(g.lat, 0), RZero>> : x \in FarXs(g) }

\* The cursor domain of the spec: xi in [0, xdim-2], yi in [0, ydim-2],
\* zi in [0, zdim-2].  A 2D grid (zdim = 1) is queried with zi = 0.
XYCursors(g) ==
  { [xi |-> a, yi |-> b, zi |-> c] :
      a \in 0..(g.xdim - 2), b \in 0..(g.ydim - 2),
      c \in IF g.zdim = 1 THEN {0} ELSE 0..(g.zdim - 2) }

ValidCursor(g, c) ==
  /\ c.xi \in 0..(g.xdim - 2)
  /\ c.yi \in 0..(g.ydim - 2)
  /\ c.zi \in 0..(g.zdim - 2)

Idle == [op |-> "none"]
NoHist == <<>>
NoCur == [xi |-> <<0, 0>>, yi |-> <<0, 0>>, zi |-> <<0, 0>>, ti |-> <<0, 0>>]

Init == call = Idle /\ ret = Idle /\ cur = NoCur /\ hist = NoHist

\* The caller is done with the last call.
Return ==
  /\ call # Idle
  /\ call' = Idle /\ ret' = Idle /\ cur' = NoCur /\ hist' = NoHist

(***************************************************************************)
(* Calls of temporal_interpolation.  First is a first call; the other      *)
(* actions call again with related inputs and keep the first call and its  *)
(* result in hist.                                                         *)
(***************************************************************************)
Query(f, x, y, z, t, m, cs) ==
  [op |-> "temporal_interpolation", f |-> f, x |-> x, y |-> y, z |-> z,
   t |-> t, m |-> m, cs |-> cs]

Run(q) == temporal_interpolation(q.x, q.y, q.z, q.t, q.f, q.cs, q.m)

\* A first call: field f, point p, time t, method m, cursor c and ti.
First(f, p, t, m, c, ti) ==
  /\ call' = Query(f, p[1], p[2], p[3], t, m, Cursors(f.igrid, c, ti))
  /\ ret' = Run(call')
  /\ cur' = ret'.cur
  /\ hist' = NoHist

Related(q) ==
  /\ call.op = "temporal_interpolation"
  /\ hist = NoHist
  /\ hist' = [call |-> call, ret |-> ret]
  /\ call' = q
  /\ ret' = Run(q)
  /\ cur' = ret'.cur

\* The same query again, with the cursor the first call left.
Again == Related([call EXCEPT !.cs = cur])

\* The same query with the field's cursor slot reset to (0, 0, 0, 0).
FromZero ==
  Related([call EXCEPT !.cs = Cursors(call.f.igrid, [xi |-> 0, yi |-> 0, zi |-> 0], 0)])

\* The same query 360 degrees further east, or 720 degrees further west.
ShiftX ==
  \E d \in {360, -720} : Related([call EXCEPT !.x = RAdd(call.x, R(d))])

\* The same query k periods later (or earlier) on a time-periodic field.
Periods == 2
ShiftT ==
  /\ call.op = "temporal_interpolation"
  /\ call.f.time_periodic = 1
  /\ \E k \in (-Periods..Periods) \ {0} :
       Related([call EXCEPT !.t =
                  RAdd(call.t, RMul(R(k), TimePeriod(call.f.grid.tdim,
                                                    call.f.grid.time)))])

(***************************************************************************)
(* SpecTime: search_time_index applied to bounded inputs.  A period of     *)
(* zero (size = 1) makes the periodic reduction divide by zero, so a       *)
(* periodic axis has at least two samples.                                 *)
(***************************************************************************)
CallTime ==
  /\ call = Idle
  /\ \E tvals \in TimeAxes, t \in TimeVals, p \in {0, 1} :
    \E ti \in -2..(Len(tvals) - 1) :
      /\ p = 1 => Len(tvals) > 1
      /\ call' = [op |-> "search_time_index", t |-> t, size |-> Len(tvals),
                  tvals |-> tvals, ti |-> ti, time_periodic |-> p]
      /\ ret' = search_time_index(t, Len(tvals), tvals, ti, p)
      /\ UNCHANGED <<cur, hist>>

NextTime == CallTime \/ Return
SpecTime == Init /\ [][NextTime]_vars

InAxis(t, size, tvals) == RGe(t, At(tvals, 0)) /\ RLe(t, At(tvals, size - 1))

GreatestIndexLe(t, size, tvals, ti) ==
  /\ ti \in 0..(size - 1)
  /\ RLe(At(tvals, ti), t)
  /\ \A j \in 0..(size - 1) : RLe(At(tvals, j), t) => j <= ti

\* C2: for a strictly increasing time axis and any initial ti <= size-1
\* (negative ones included), search_time_index leaves ti at the greatest
\* index with tvals[ti] <= t, t being the input time when it lies inside
\* the axis and the period-reduced time when the axis is periodic.
C2_TimeIndex ==
  call.op = "search_time_index" =>
    /\ InAxis(call.t, call.size, call.tvals) =>
         ret.t = call.t /\ GreatestIndexLe(call.t, call.size, call.tvals, ret.ti)
    /\ call.time_periodic = 1 =>
         /\ InAxis(ret.t, call.size, call.tvals)
         /\ \E k \in -(2 * TMax)..(2 * TMax) :
              ret.t = RSub(call.t, RMul(R(k), TimePeriod(call.size, call.tvals)))
         /\ GreatestIndexLe(ret.t, call.size, call.tvals, ret.ti)

C2_Witness ==
  /\ call.op = "search_time_index"
  /\ call.time_periodic = 1
  /\ call.ti < 0
  /\ RGt(call.t, At(call.tvals, call.size - 1))
  /\ ret.ti > 0
  /\ ret.ti < call.size - 1

(***************************************************************************)
(* SpecSearch: search_indices_rectilinear applied to bounded queries, from *)
(* every cursor of the valid domain.  The time arguments are those of the  *)
(* driver's single-sample call on time slice ti.                           *)
(***************************************************************************)
CallRect ==
  /\ call = Idle
  /\ \E g \in RectGrids :
    \E p \in Points(g), c \in XYCursors(g), ti \in 0..(g.tdim - 1) :
      /\ ti > 0 => g.z4d = 1
      /\ call' = [op |-> "search_indices_rectilinear", g |-> g,
                  x |-> p[1], y |-> p[2], z |-> p[3], c |-> c, ti |-> ti]
      /\ ret' = search_indices_rectilinear(p[1], p[2], p[3], g, c, ti, At(g.time, ti),
                                           At(g.time, ti), RAdd(At(g.time, ti), ROne))
      /\ UNCHANGED <<cur, hist>>

\* search_indices_curvilinear on the curvilinear grids.  When the cursor
\* leaves the coordinate tables the next corner reads are outside the
\* arrays and the loop goes on from whatever they return: the call ends on
\* a later iteration with either result, or at the cap.
CurvPoints(g) ==
  IF g.sphere_mesh = 0
    THEN Halves(-Margin, 6 + Margin) \X Halves(-Margin, 2 + Margin)
           \X { R(-Margin), R(5) }
    ELSE { R(45 * n) : n \in -8..16 }
           \X { R(-60 - 15 * Margin), R(-60), R(-30), R(0), R(60),
                R(60 + 15 * Margin) }
           \X { RZero }

CallCurv ==
  /\ call = Idle
  /\ \E g \in CurvGrids :
    \E p \in CurvPoints(g), c \in XYCursors(g) :
      \E r \in { search_indices_curvilinear(p[1], p[2], p[3], g, c, 0,
                                             At(g.time, 0), At(g.time, 0),
                                             RAdd(At(g.time, 0), ROne)) } :
        /\ call' = [op |-> "search_indices_curvilinear", g |-> g,
                    x |-> p[1], y |-> p[2], z |-> p[3], c |-> c, ti |-> 0]
        /\ IF r.st = "ub"
             THEN \E e \in {SUCCESS, ERROR_OUT_OF_BOUNDS},
                     n \in {r.it + 1, maxIterSearch + 1} :
                    ret' = [r EXCEPT !.it = n,
                                     !.err = IF n > maxIterSearch
                                               THEN ERROR_OUT_OF_BOUNDS ELSE e]
             ELSE ret' = r
        /\ UNCHANGED <<cur, hist>>

NextSearch == CallRect \/ CallCurv \/ Return
SpecSearch == Init /\ [][NextSearch]_vars

\* x lies on the eastward arc from a to b, longitudes taken modulo 360.
LonMod(a) == RSub(a, R(360 * RFloor(RDiv(a, R(360)))))
OnArc(x, a, b) == RLe(LonMod(RSub(x, a)), LonMod(RSub(b, a)))

Between(v, a, b) == RLe(a, v) /\ RLe(v, b)

\* The depth column the vertical search ran on.
ColumnOf(g, r, ti) ==
  IF g.gtype = RECTILINEAR_S_GRID
    THEN SColumn(g, r.xi, r.yi, r.xsi, r.eta, ti, At(g.time, ti),
                 At(g.time, ti), RAdd(At(g.time, ti), ROne))
    ELSE g.depth

\* C1: on a rectilinear grid, from every cursor of the valid domain, a
\* SUCCESS of search_indices_rectilinear leaves the cursor in the valid
\* domain, on a cell that contains (x, y, z) (longitudes modulo 360 on a
\* spherical mesh), with xsi, eta and zeta in [0, 1].
C1_CellContainsPoint ==
  (/\ call.op = "search_indices_rectilinear"
   /\ ValidCursor(call.g, call.c)
   /\ ret.err = SUCCESS)
  => LET g == call.g
         col == ColumnOf(g, ret, call.ti)
     IN  /\ ValidCursor(g, ret)
         /\ IF g.sphere_mesh = 0
              THEN Between(call.x, At(g.lon, ret.xi), At(g.lon, ret.xi + 1))
              ELSE OnArc(call.x, At(g.lon, ret.xi), At(g.lon, ret.xi + 1))
         /\ Between(call.y, At(g.lat, ret.yi), At(g.lat, ret.yi + 1))
         /\ Between(call.z, At(col, ret.zi), At(col, ret.zi + 1))
         /\ In01(ret.xsi) /\ In01(ret.eta) /\ In01(ret.zeta)

C1_Witness ==
  /\ call.op = "search_indices_rectilinear"
  /\ ValidCursor(call.g, call.c)
  /\ ret.err = SUCCESS
  /\ call.g.sphere_mesh = 1
  /\ ret.it > 1
  /\ ret.xi # call.c.xi /\ ret.yi # call.c.yi
  /\ ret.zeta = ROne

(***************************************************************************)
(* SpecClock: temporal_interpolation over a range of times, on fields with *)
(* every combination of time flags, from every time cursor.                *)
(***************************************************************************)
TSpan == 3
ClockTimes(g) ==
  Halves(At(g.time, 0)[1] - TSpan, At(g.time, g.tdim - 1)[1] + TSpan)

ClockFields ==
  FieldsOn(GPlane, 0) \cup FieldsOn(GFlat, 1) \cup FieldsOn(GSigma4, 0)
    \cup { Field(GPlane, 0, 0, 0, "ramp"), Field(GOther, 0, 1, 0, "mix") }

ClockPoints(g) ==
  { <<RHalf, RHalf, IF g.zdim = 1 THEN RZero ELSE R(3)>>,
    <<R(2), R(1), IF g.zdim = 1 THEN RZero ELSE R(5)>>,
    <<RAdd(At(g.lon, g.xdim - 1), R(Margin)), RHalf, RZero>> }

InterpClock ==
  /\ call = Idle
  /\ \E f \in ClockFields :
       \E p \in ClockPoints(f.grid), t \in ClockTimes(f.grid),
          m \in {LINEAR, NEAREST, 2}, ti \in 0..(f.grid.tdim - 1) :
         First(f, p, t, m, [xi |-> 0, yi |-> 0, zi |-> 0], ti)

NextClock == InterpClock \/ ShiftT \/ Return
SpecClock == Init /\ [][NextClock]_vars

IsInterp == call.op = "temporal_interpolation"
IsFirst == IsInterp /\ hist = NoHist

\* C3: on a time-periodic field with period T = tvals[tdim-1] - tvals[0],
\* the query at t and the query at t + k*T return the same error code and
\* the same value, for every integer k and every t, t = tvals[0] and
\* t = tvals[tdim-1] included.
C3_PeriodicShift ==
  (/\ IsInterp
   /\ hist # NoHist
   /\ call.f.time_periodic = 1
   /\ call = [hist.call EXCEPT !.t = call.t])
  => ret.err = hist.ret.err /\ ret.value = hist.ret.value

\* C4: on a field that is neither periodic nor extrapolating, the result is
\* TIME_EXTRAPOLATION exactly when t < tvals[0] or t > tvals[tdim-1]; at
\* t = tvals[tdim-1] an in-domain query succeeds through the single-sample
\* branch, on time slice tdim-1 alone.
C4_TimeExtrapolation ==
  (/\ IsFirst
   /\ call.f.time_periodic = 0
   /\ call.f.allow_time_extrapolation = 0)
  => LET g == call.f.grid
         last == At(g.time, g.tdim - 1)
     IN  /\ (ret.err = ERROR_TIME_EXTRAPOLATION)
              <=> (RLt(call.t, At(g.time, 0)) \/ RGt(call.t, last))
         /\ (call.t = last /\ ret.err \notin {ERROR_OUT_OF_BOUNDS, ERROR})
              => /\ ret.err = SUCCESS
                 /\ ret.branch = "single"
                 /\ At(ret.cur.ti, call.f.igrid) = g.tdim - 1
                 /\ ret.value =
                      Run([call EXCEPT !.f.data =
                             [c \in DOMAIN call.f.data |->
                                IF c[1] = g.tdim - 1 THEN call.f.data[c]
                                ELSE RZero]]).value

C4_Witness ==
  /\ IsFirst
  /\ call.f.time_periodic = 0
  /\ call.f.allow_time_extrapolation = 0
  /\ call.f.grid.tdim = 3
  /\ call.t = At(call.f.grid.time, 2)
  /\ At(call.cs.ti, call.f.igrid) = 0
  /\ ret.err = SUCCESS
  /\ ret.branch = "single"

\* The cell and the local coordinates a call of the driver ended on.
FoundCell(q, r) ==
  LET c == CursorAt(r.cur, q.f.igrid)
  IN  [xi |-> c.xi, yi |-> c.yi, zi |-> c.zi, ti |-> c.ti,
       xsi |-> r.loc.xsi, eta |-> r.loc.eta, zeta |-> r.loc.zeta]

\* C10: a successful LINEAR or NEAREST query on a non-periodic field returns,
\* when the located ti < tdim-1 and t > tvals[ti], the value
\* f0 + (f1 - f0) * (t - tvals[ti]) / (tvals[ti+1] - tvals[ti]), f0 and f1
\* being the spatial kernel on that cell and those (xsi, eta, zeta) on the
\* time slices ti and ti+1, and otherwise the spatial kernel on slice ti
\* alone; on tvals = [0, 10] with data 0 at t = 0 and 1 at t = 10, the
\* query at t = 2.5 returns 0.25.
C10_DriverValue ==
  (/\ IsFirst
   /\ call.f.time_periodic = 0
   /\ call.m \in {LINEAR, NEAREST}
   /\ ret.err = SUCCESS)
  => LET g == call.f.grid
         s == FoundCell(call, ret)
         f0 == Kernel(call.f, s, s.ti, call.m)
     IN  /\ IF s.ti < g.tdim - 1 /\ RGt(call.t, At(g.time, s.ti))
               THEN LET f1 == Kernel(call.f, s, s.ti + 1, call.m)
                        w == RDiv(RSub(call.t, At(g.time, s.ti)),
                                  RSub(At(g.time, s.ti + 1), At(g.time, s.ti)))
                    IN  ret.value = RAdd(f0, RMul(RSub(f1, f0), w))
               ELSE ret.value = f0
         /\ (call.f = Field(GPlane, 0, 0, 0, "ramp") /\ call.t = <<5, 2>>)
              => ret.value = <<1, 4>>

C10_Witness ==
  /\ IsFirst
  /\ call.f = Field(GPlane, 0, 0, 0, "ramp")
  /\ call.t = <<5, 2>>
  /\ call.m = LINEAR
  /\ ret.err = SUCCESS
  /\ ret.branch = "two"
  /\ ret.value = <<1, 4>>

(***************************************************************************)
(* SpecDrv: temporal_interpolation on the rectilinear grids, from every    *)
(* cursor of the valid domain, on nodes, cell edges, cell interiors and    *)
(* points outside; then the same query again, from the cursor the first    *)
(* call left (Again) or from the cursor (0, 0, 0, 0) (FromZero).           *)
(***************************************************************************)
DrvFields ==
  { Field(GFlat, 1, 1, 0, "mix"), Field(GPlane, 0, 0, 1, "mix"),
    Field(GGlobe, 0, 1, 0, "mix"), Field(GRegion, 1, 0, 0, "mix"),
    Field(GSigma, 0, 1, 0, "mix"), Field(GSigma4, 0, 0, 1, "mix") }

DrvXs(g) ==
  IF g.sphere_mesh = 0 THEN NodesAndMids(g.lon, g.xdim)
  ELSE IF g.zonal_periodic = 1 THEN { R(45 * n) : n \in -1..9 }
  ELSE { R(45 * n) : n \in -3..6 }

DrvYs(g) ==
  { At(g.lat, 1), RDiv(RAdd(At(g.lat, 0), At(g.lat, 1)), R(2)) }

DrvZs(g) ==
  IF g.zdim = 1 THEN {RZero}
  ELSE IF g.gtype = RECTILINEAR_Z_GRID THEN { R(5), R(10 + Margin) }
  ELSE { R(12), R(20) }

DrvPoints(g) == DrvXs(g) \X DrvYs(g) \X DrvZs(g)

DrvTimes(g) ==
  { At(g.time, 1), RDiv(RAdd(At(g.time, 0), At(g.time, 1)), R(2)),
    RAdd(At(g.time, g.tdim - 1), R(Margin)) }

InterpDrv ==
  /\ call = Idle
  /\ \E f \in DrvFields :
       \E p \in DrvPoints(f.grid), t \in DrvTimes(f.grid), m \in {LINEAR, NEAREST},
          c \in XYCursors(f.grid), ti \in 0..(f.grid.tdim - 1) :
         First(f, p, t, m, c, ti)

NextDrv == InterpDrv \/ Again \/ FromZero \/ Return
SpecDrv == Init /\ [][NextDrv]_vars

ZeroCursors(slot) == Cursors(slot, [xi |-> 0, yi |-> 0, zi |-> 0], 0)

\* C6: for a fixed field, position, time and method, the query started from
\* any cursor of the valid domain returns the same error code and the same
\* value as the query started from the cursor (0, 0, 0, 0), points on a cell
\* edge or on the seam of a zonally periodic spherical grid included.
C6_WarmStart ==
  (/\ IsInterp
   /\ hist # NoHist
   /\ call = [hist.call EXCEPT !.cs = ZeroCursors(call.f.igrid)])
  => ret.err = hist.ret.err /\ ret.value = hist.ret.value

WrapFields == { Field(GGlobe, 0, 1, 0, "mix") }

WrapPoints(g) == { R(45 * n) : n \in 0..8 } \X { R(-30) } \X { R(5) }

WrapTimes(g) == { R(5) }

WrapCursors(g) == { c \in XYCursors(g) : c.yi = 0 }

InterpWrap ==
  /\ call = Idle
  /\ \E f \in WrapFields :
       \E p \in WrapPoints(f.grid), t \in WrapTimes(f.grid),
          c \in WrapCursors(f.grid), ti \in 0..(f.grid.tdim - 1) :
         First(f, p, t, LINEAR, c, ti)

NextWrap == InterpWrap \/ ShiftX \/ Return
SpecWrap == Init /\ [][NextWrap]_vars

\* C5: on a spherical, zonally periodic rectilinear grid covering the globe,
\* for every x and every valid starting cursor, the query at x + 360 and the
\* query at x - 720 return the same error code and the same value as the
\* query at x.
C5_SphericalWrap ==
  (/\ IsInterp
   /\ hist # NoHist
   /\ \E d \in {360, -720} :
        call = [hist.call EXCEPT !.x = RAdd(hist.call.x, R(d))])
  => ret.err = hist.ret.err /\ ret.value = hist.ret.value

(***************************************************************************)
(* The loop counters of the horizontal searches, under SpecSearch.         *)
(***************************************************************************)
IsSearch ==
  call.op \in {"search_indices_rectilinear", "search_indices_curvilinear"}

CapOfSearch ==
  IF call.op = "search_indices_rectilinear" THEN itMax ELSE maxIterSearch

\* The number of times the loop body has run when the search returns: the
\* counter it, and one more when the curvilinear body returned before it++.
Executions ==
  IF call.op = "search_indices_curvilinear" /\ ret.st = "oob"
    THEN ret.it + 1 ELSE ret.it

\* C8 as stated: the spherical rectilinear loop runs at most 10^4 times and
\* the curvilinear loop at most 10^6 times, and a search that reaches its
\* cap returns OUT_OF_BOUNDS.
C8_AtMostCap ==
  IsSearch =>
    /\ Executions <= CapOfSearch
    /\ Executions >= CapOfSearch => ret.err = ERROR_OUT_OF_BOUNDS

\* C8, amended: the loop body runs at most cap + 1 times (10^4 + 1 for the
\* spherical rectilinear search, 10^6 + 1 for the curvilinear one), and a
\* search whose counter passes the cap returns OUT_OF_BOUNDS.
C8_AtMostCapPlusOne ==
  IsSearch =>
    /\ Executions <= CapOfSearch + 1
    /\ ret.it > CapOfSearch => ret.err = ERROR_OUT_OF_BOUNDS

C8_Witness ==
  /\ call.op = "search_indices_rectilinear"
  /\ ValidCursor(call.g, call.c)
  /\ ret.it = itMax + 1
  /\ ret.err = ERROR_OUT_OF_BOUNDS

\* C11: in the curvilinear search, after every cursor step followed by
\* fix_2d_indices, on spherical and non-spherical meshes alike (the mirror
\* xi := xdim - xi included), the cursor is in the valid domain, so that the
\* next corner reads are inside the coordinate tables.  The loop of the
\* model stops at the first step that leaves the domain, so the cursor the
\* search returns with is the one to test.
C11_CursorStaysValid ==
  (/\ call.op = "search_indices_curvilinear"
   /\ ret.it > 0)
  => /\ CornersInside(ret.xi, ret.yi, call.g)
     /\ ret.st # "ub"

(***************************************************************************)
(* SpecFrame: temporal_interpolation with the caller's other cursor slot   *)
(* holding values of its own (Marks), on rectilinear and curvilinear       *)
(* fields, with every outcome: SUCCESS, OUT_OF_BOUNDS, TIME_EXTRAPOLATION  *)
(* and ERROR.  When the curvilinear search reads corners outside the       *)
(* coordinate tables the reads return arbitrary numbers: the call ends     *)
(* with either result of the search, on any cell, with any value.          *)
(***************************************************************************)
Marks == {0, 3}

FrameFields ==
  { Field(GPlane, 0, 0, 0, "mix"), Field(GFlat, 1, 0, 0, "mix"),
    Field(GSigma, 1, 1, 0, "mix"), Field(GPlane, 1, 0, 1, "mix"),
    Field(GOther, 1, 1, 0, "mix"), Field(GFan, 1, 0, 0, "mix"),
    Field(GBall, 0, 1, 0, "mix") }

FramePoints(g) ==
  { <<RHalf, RHalf, IF g.zdim = 1 THEN RZero ELSE R(5)>>,
    <<R(1), R(1), IF g.zdim = 1 THEN RZero ELSE R(5)>>,
    <<R(6 + Margin), RHalf, RZero>>,
    <<RZero, R(75), RZero>> }

FrameTimes(g) ==
  { At(g.time, 0), RDiv(RAdd(At(g.time, 0), At(g.time, 1)), R(2)),
    RAdd(At(g.time, g.tdim - 1), R(Margin)) }

\* Slot `slot` starts at c and ti, the other slot holds the mark o.
FrameCursors(slot, c, ti, o) ==
  [xi |-> IF slot = 0 THEN <<c.xi, o>> ELSE <<o, c.xi>>,
   yi |-> IF slot = 0 THEN <<c.yi, o>> ELSE <<o, c.yi>>,
   zi |-> IF slot = 0 THEN <<c.zi, o>> ELSE <<o, c.zi>>,
   ti |-> IF slot = 0 THEN <<ti, o>> ELSE <<o, ti>>]

\* The returns of a call q whose search left the tables; r is the result
\* up to the first read outside them.  The cursor is written through
\* &xi[igrid], &yi[igrid] and is left where fix_2d_indices put it last.
UbOutcomes(q, r) ==
  { [r EXCEPT !.err = e,
              !.value = IF e = SUCCESS /\ q.m \in {LINEAR, NEAREST} THEN v ELSE Undef,
              !.cur.xi = SetAt(r.cur.xi, q.f.igrid, a),
              !.cur.yi = SetAt(r.cur.yi, q.f.igrid, b)] :
      e \in {SUCCESS, ERROR_OUT_OF_BOUNDS}, v \in {RZero, RHalf},
      a \in {0, q.f.grid.xdim - 2}, b \in {0, q.f.grid.ydim - 2} }

InterpFrame ==
  /\ call = Idle
  /\ \E f \in FrameFields, o \in Marks, m \in {LINEAR, NEAREST, 2} :
       \E p \in FramePoints(f.grid), t \in FrameTimes(f.grid),
          c \in XYCursors(f.grid), ti \in 0..(f.grid.tdim - 1) :
         /\ call' = Query(f, p[1], p[2], p[3], t, m,
                          FrameCursors(f.igrid, c, ti, o))
         /\ \E r \in { Run(call') } :
              IF r.ub THEN \E u \in UbOutcomes(call', r) : ret' = u
              ELSE ret' = r
         /\ cur' = ret'.cur
         /\ hist' = NoHist

NextFrame == InterpFrame \/ Return
SpecFrame == Init /\ [][NextFrame]_vars

\* C12: a temporal_interpolation call on field F leaves the entries of
\* every slot other than F.igrid of the four cursor arrays unchanged,
\* whatever it returns; on TIME_EXTRAPOLATION the entries at F.igrid are
\* unchanged as well; and the value is written only on SUCCESS.
C12_CursorFrame ==
  IsFirst =>
    /\ \A a \in {"xi", "yi", "zi", "ti"} :
         At(ret.cur[a], 1 - call.f.igrid) = At(call.cs[a], 1 - call.f.igrid)
    /\ ret.err = ERROR_TIME_EXTRAPOLATION => ret.cur = call.cs
    /\ ret.value # Undef => ret.err = SUCCESS

C12_Witness ==
  /\ IsFirst
  /\ call.f.igrid = 1
  /\ At(call.cs.xi, 0) = 3
  /\ ret.err = ERROR_OUT_OF_BOUNDS
  /\ At(ret.cur.xi, 1) # At(call.cs.xi, 1)
  /\ At(ret.cur.ti, 1) # At(call.cs.ti, 1)
  /\ ret.value = Undef

(***************************************************************************)
(* The vector adapters (parcels.h:530-560).  QueryEach makes the field     *)
(* queries in order, each from the cursors the one before left, and stops  *)
(* at the first error (CHECKERROR); log records every query made.          *)
(***************************************************************************)
LogEntry(i, cs, r) == [arg |-> i, cs |-> cs, err |-> r.err, value |-> r.value]

FirstError(log) ==
  IF \A i \in 1..Len(log) : log[i].err = SUCCESS THEN SUCCESS
  ELSE log[CHOOSE i \in 1..Len(log) :
             /\ log[i].err # SUCCESS
             /\ \A j \in 1..(i - 1) : log[j].err = SUCCESS].err

\* A variant that makes every query whatever the earlier ones returned and
\* reports the first error afterwards.
RECURSIVE QueryEachKeepGoing(_, _, _, _, _, _, _, _)
QueryEachKeepGoing(fields, log, x, y, z, time, cs, m) ==
  IF Len(log) = Len(fields)
    THEN [err |-> FirstError(log), cur |-> cs, log |-> log]
  ELSE LET i == Len(log) + 1
           r == temporal_interpolation(x, y, z, time, fields[i], cs, m)
       IN  QueryEachKeepGoing(fields, Append(log, LogEntry(i, cs, r)),
                              x, y, z, time, r.cur, m)

RECURSIVE QueryEach(_, _, _, _, _, _, _, _)
\* CHECKERROR on the result r of the query of the next field.
QueryChecked(r, fields, log, x, y, z, time, cs, m) ==
  IF r.err # SUCCESS
    THEN [err |-> r.err, cur |-> r.cur,
          log |-> Append(log, LogEntry(Len(log) + 1, cs, r))]
    ELSE QueryEach(fields, Append(log, LogEntry(Len(log) + 1, cs, r)),
                   x, y, z, time, r.cur, m)

QueryEach(fields, log, x, y, z, time, cs, m) ==
  IF Len(log) = Len(fields) THEN [err |-> SUCCESS, cur |-> cs, log |-> log]
  ELSE QueryChecked(temporal_interpolation(x, y, z, time, fields[Len(log) + 1],
                                           cs, m),
                    fields, log, x, y, z, time, cs, m)

\* Each query writes its value straight into *valueU, *valueV.
OutputsUV(r) ==
  [err |-> r.err, cur |-> r.cur, log |-> r.log,
   valueU |-> r.log[1].value,
   valueV |-> IF Len(r.log) > 1 THEN r.log[2].value ELSE Undef]

\* Returns [err, cur, log, valueU, valueV]; an output is Undef when it is
\* not written.
temporal_interpolationUV(x, y, z, time, U, V, cs, m) ==
  OutputsUV(QueryEach(<<U, V>>, <<>>, x, y, z, time, cs, m))

\* The six values go to locals; *valueU and *valueV are written after the
\* sixth query (parcels.h:556-557).
OutputsUVrotation(r) ==
  LET v(i) == r.log[i].value
  IN  [err |-> r.err, cur |-> r.cur, log |-> r.log,
       valueU |-> IF r.err = SUCCESS
                    THEN RSub(RMul(v(1), v(3)), RMul(v(2), v(6))) ELSE Undef,
       valueV |-> IF r.err = SUCCESS
                    THEN RAdd(RMul(v(1), v(4)), RMul(v(2), v(5))) ELSE Undef]

temporal_interpolationUVrotation(x, y, z, time, U, V, cosU, sinU, cosV, sinV, cs, m) ==
  OutputsUVrotation(QueryEach(<<U, V, cosU, sinU, cosV, sinV>>, <<>>,
                              x, y, z, time, cs, m))

(***************************************************************************)
(* SpecUV: the adapters on fields that fail in different ways: outside the *)
(* time axis, outside the grid, on an unknown grid code.                   *)
(***************************************************************************)
UVFields ==
  { Field(GPlane, 0, 0, 0, "mix"), Field(GFlat, 1, 1, 0, "mix"),
    Field(GPlane, 0, 1, 0, "ramp"), Field(GOther, 0, 1, 0, "mix") }

UVPoints == { <<RHalf, RHalf, R(5)>>, <<R(3), R(1), R(5)>> }

UVTimes == { R(1), R(10 + Margin) }

CallUV ==
  /\ call = Idle
  /\ \E U \in UVFields, V \in UVFields :
       \E p \in UVPoints, t \in UVTimes, m \in {LINEAR, NEAREST} :
         /\ call' = [op |-> "temporal_interpolationUV", fields |-> <<U, V>>,
                     x |-> p[1], y |-> p[2], z |-> p[3], t |-> t, m |-> m,
                     cs |-> NoCur]
         /\ ret' = temporal_interpolationUV(p[1], p[2], p[3], t, U, V, NoCur, m)
         /\ cur' = ret'.cur
         /\ hist' = NoHist

CallUVrotation ==
  /\ call = Idle
  /\ \E U \in UVFields, V \in UVFields, cosU \in UVFields :
       \E sinU \in UVFields, cosV \in UVFields, sinV \in UVFields :
         \E p \in UVPoints, t \in UVTimes :
           /\ call' = [op |-> "temporal_interpolationUVrotation",
                       fields |-> <<U, V, cosU, sinU, cosV, sinV>>,
                       x |-> p[1], y |-> p[2], z |-> p[3], t |-> t,
                       m |-> LINEAR, cs |-> NoCur]
           /\ ret' = temporal_interpolationUVrotation(p[1], p[2], p[3], t, U, V,
                                                      cosU, sinU, cosV, sinV,
                                                      NoCur, LINEAR)
           /\ cur' = ret'.cur
           /\ hist' = NoHist

NextUV == CallUV \/ CallUVrotation \/ Return
SpecUV == Init /\ [][NextUV]_vars

IsAdapter ==
  call.op \in {"temporal_interpolationUV", "temporal_interpolationUVrotation"}

\* C9: the adapters query their fields in argument order (U, V, cosU, sinU,
\* cosV, sinV), return unchanged the error code of the first query that is
\* not SUCCESS and query no field after it, and
\* temporal_interpolationUVrotation writes its two outputs only when all six
\* queries returned SUCCESS.
C9_FailFast ==
  IsAdapter =>
    LET n == Len(call.fields)
        k == Len(ret.log)
    IN  /\ k \in 1..n
        /\ ret.log[1].cs = call.cs
        /\ \A i \in 1..k :
             LET r == temporal_interpolation(call.x, call.y, call.z, call.t,
                                             call.fields[i], ret.log[i].cs, call.m)
             IN  /\ ret.log[i].arg = i
                 /\ ret.log[i].err = r.err
                 /\ i < k => ret.log[i].err = SUCCESS /\ ret.log[i + 1].cs = r.cur
        /\ ret.err = ret.log[k].err
        /\ ret.err = SUCCESS => k = n
        /\ (call.op = "temporal_interpolationUVrotation"
              /\ (ret.valueU # Undef \/ ret.valueV # Undef))
             => k = 6 /\ \A i \in 1..6 : ret.log[i].err = SUCCESS

C9_Witness ==
  /\ call.op = "temporal_interpolationUVrotation"
  /\ Len(ret.log) = 4
  /\ ret.err = ERROR_TIME_EXTRAPOLATION
  /\ ret.log[3].err = SUCCESS
  /\ ret.valueU = Undef /\ ret.valueV = Undef

====
